---- MODULE Spec2Model ----
(***************************************************************************)
(* State-machine model of miniapps/exaconstit/mechanics_driver.cpp: the    *)
(* driver main() of one MPI process (rank myid), the material-argument     *)
(* validator checkMaterialArgs, the grain loader setGrainData and the      *)
(* NonlinearMechOperator wrapper (constructor, Solve, destructor).  The     *)
(* other ranks of the job appear only where main synchronises with them:   *)
(* in the visualization block that ends in MPI_Barrier.                    *)
(*                                                                         *)
(* Time is kept in integer ticks, so t, dt and t_final are exact; the      *)
(* rounding of IEEE doubles is not modelled.  A grid function is modelled  *)
(* by the integer coordinate of one degree of freedom on the ramped        *)
(* boundary, in units of the boundary increment 0.1.                       *)
(***************************************************************************)
EXTENDS Integers, Sequences, FiniteSets, TLC

\* ------------------------------------------------------------------ bounds
MaxGrains == 3        \* ngrains ranges over 0..MaxGrains
NumProcs == 2         \* myid ranges over 0..NumProcs-1
MaxDt == 2            \* dt ranges over 1..MaxDt ticks
MaxTFinal == 5        \* t_final ranges over 1..MaxTFinal ticks
MaxRem == 2           \* t_final = EpsInv + r ticks, r in 0..MaxRem, with dt = EpsInv
MaxVisSteps == 2      \* vis_steps ranges over 0..MaxVisSteps
NumElems == 2         \* elements of the local mesh partition
NumBdrAttr == 3       \* boundary attributes of the mesh (bdr_attributes.Max())
SweepDt == 1          \* dt of the schedule under which the flags are swept
SweepTFinal == 1      \* t_final of that schedule

\* ------------------------------------------------------- program constants
EpsInv == 100000000   \* 1 / 1e-8, the factor of dt in the last_step test
EulerOffset == 3      \* grain_offset for Euler angles and the uniform vector
QuatOffset == 4       \* grain_offset for quaternions
NameWidth == 6        \* setw(6) of the process id in a snapshot name
Order == 1            \* default finite element order
BdrIncrement == -1    \* y[2] = -.1 of NonZeroBdrFunc, in units of 0.1

VARIABLES
  \* command-line options (main's locals, set by args.Parse())
  hyperelastic, umat, cp, grain_euler, grain_q, grain_uniform, ngrains,
  grain_uni_vec, dt, t_final, vis_steps, cubit, visualization,
  \* whether mesh_file and grain_file can be opened for reading
  mesh_file_ok, grain_file_ok,
  \* MPI rank of this process
  myid,
  \* position of main()
  pc,
  \* main's locals
  err, grain_offset, g_orient, matVars, ess_bdr,
  x_gf, x_ref, x_def, x, t, ti, last_step,
  \* NonlinearMechOperator's members
  Hform, model, newton_converged, released,
  \* the calls made through the member Hform, each with the state the
  \* member was in when the call was made
  form_calls,
  \* per rank: how far the rank is in the visualization block of main
  vis_u,
  \* the files written by this process: name -> [data, writes]
  files

flagVars == <<hyperelastic, umat, cp, grain_euler, grain_q, grain_uniform,
              ngrains, grain_uni_vec, myid, cubit, visualization,
              mesh_file_ok, grain_file_ok>>
schedVars == <<dt, t_final, vis_steps>>
grainVars == <<grain_offset, g_orient, matVars>>
fieldVars == <<x_gf, x_ref, x_def, x>>
loopVars == <<t, ti, last_step>>
operVars == <<Hform, model, newton_converged, released, form_calls>>
vars == <<flagVars, schedVars, pc, err, grainVars, ess_bdr, fieldVars,
          loopVars, operVars, vis_u, files>>

\* ------------------------------------------------------------- helpers
Min(a, b) == IF a <= b THEN a ELSE b

\* The values of a grain file or uniform vector: entry i (0-based) is 10+i,
\* so that every entry of a table is distinct.
TableOfSize(n) == [i \in 1..n |-> 10 + (i - 1)]

Uninit == "uninit"
\* Stored numbers that no table holds: storage never written, and the
\* result of a read past the end of an array.
UninitDatum == 0 - 1
GarbageDatum == 0 - 2
NullPtr == "null"

\* ------------------------------------------------- checkMaterialArgs
\* The by-value parameters as a record.
MatArgs(h, u, c, ge, gq, gu, n) ==
  [hyperelastic |-> h, umat |-> u, cp |-> c, grain_euler |-> ge,
   grain_q |-> gq, grain_uniform |-> gu, ngrains |-> n]

\* Mutant of HyperelasticOverride: the block forgets cp = false.
HyperelasticOverride_KeepCp(a) ==
  IF a.hyperelastic
    THEN [a EXCEPT !.umat = FALSE, !.grain_euler = FALSE,
                   !.grain_q = FALSE, !.grain_uniform = FALSE]
    ELSE a

\* if (hyperelastic) { umat = cp = grain_* = false; }
HyperelasticOverride(a) ==
  IF a.hyperelastic
    THEN [a EXCEPT !.umat = FALSE, !.cp = FALSE, !.grain_euler = FALSE,
                   !.grain_q = FALSE, !.grain_uniform = FALSE]
    ELSE a

\* if (umat) { grain_* = false; }
UmatOverride(a) ==
  IF a.umat
    THEN [a EXCEPT !.grain_euler = FALSE, !.grain_q = FALSE,
                   !.grain_uniform = FALSE]
    ELSE a

\* The if / else-if chain setting err.
ErrorChain(a) ==
  IF a.cp /\ ~a.grain_euler /\ ~a.grain_q /\ ~a.grain_uniform THEN 1
  ELSE IF a.cp /\ a.grain_euler /\ a.grain_q THEN 1
  ELSE IF a.cp /\ a.grain_euler /\ a.grain_uniform THEN 1
  ELSE IF a.cp /\ a.grain_q /\ a.grain_uniform THEN 1
  ELSE IF a.cp /\ (a.ngrains < 1) THEN 1
  ELSE 0

checkMaterialArgs(h, u, c, ge, gq, gu, n) ==
  ErrorChain(UmatOverride(HyperelasticOverride(MatArgs(h, u, c, ge, gq, gu, n))))

\* ------------------------------------------------------------ Init
\* The ranks of MPI_COMM_WORLD.
Ranks == 0..(NumProcs - 1)

\* Sizes of the -guv vector: not given, one orientation, one per grain.
UniVecSizes == {0, EulerOffset, EulerOffset * MaxGrains}

Schedules ==
  {<<d, f>> : d \in 1..MaxDt, f \in 1..MaxTFinal}
    \cup {<<EpsInv, EpsInv + r>> : r \in 0..MaxRem}

\* The state after args.Parse() succeeded, with the locals of main at their
\* declared values.
InitLocals ==
  /\ pc = "check"
  /\ err = 0
  /\ grain_offset = 0
  /\ g_orient = << >>
  /\ matVars = [space |-> NullPtr, vdim |-> 1, data |-> << >>]
  /\ ess_bdr = << >>
  /\ x_gf = 0 /\ x_ref = 0 /\ x_def = 0 /\ x = 0
  /\ t = 0 /\ ti = 1 /\ last_step = FALSE
  /\ Hform = [state |-> Uninit, essential |-> << >>, integrators |-> << >>]
  /\ model = Uninit
  /\ newton_converged = "unset" /\ released = << >>
  /\ form_calls = {}
  /\ vis_u = [r \in Ranks |-> "closed"]
  /\ files = << >>

\* Every combination of the material flags, under one schedule.
InitFlagSweep ==
  /\ hyperelastic \in BOOLEAN /\ umat \in BOOLEAN /\ cp \in BOOLEAN
  /\ grain_euler \in BOOLEAN /\ grain_q \in BOOLEAN /\ grain_uniform \in BOOLEAN
  /\ ngrains \in 0..MaxGrains
  /\ grain_uni_vec \in {TableOfSize(n) : n \in UniVecSizes}
  /\ myid \in Ranks
  /\ dt = SweepDt /\ t_final = SweepTFinal /\ vis_steps = 1
  /\ cubit = FALSE /\ visualization = FALSE
  /\ mesh_file_ok = TRUE /\ grain_file_ok = TRUE

\* Every schedule, under the hyperelastic model (-hyperel) alone.
InitScheduleSweep ==
  /\ hyperelastic = TRUE /\ umat = FALSE /\ cp = FALSE
  /\ grain_euler = FALSE /\ grain_q = FALSE /\ grain_uniform = FALSE
  /\ ngrains = 0
  /\ grain_uni_vec = << >>
  /\ myid \in Ranks
  /\ \E s \in Schedules : dt = s[1] /\ t_final = s[2]
  /\ vis_steps \in 0..MaxVisSteps
  /\ cubit = FALSE /\ visualization = FALSE
  /\ mesh_file_ok = TRUE /\ grain_file_ok = TRUE

\* Both mesh-import paths, present and missing input files, and
\* visualization on and off, under one schedule; with and without crystal
\* plasticity over Euler angles of one grain.
InitFileSweep ==
  /\ hyperelastic = FALSE /\ umat \in BOOLEAN /\ cp \in BOOLEAN
  /\ grain_euler = TRUE /\ grain_q = FALSE /\ grain_uniform = FALSE
  /\ ngrains = 1
  /\ grain_uni_vec = << >>
  /\ myid \in Ranks
  /\ dt = SweepDt /\ t_final = SweepTFinal /\ vis_steps = 1
  /\ cubit \in BOOLEAN /\ visualization \in BOOLEAN
  /\ mesh_file_ok \in BOOLEAN /\ grain_file_ok \in BOOLEAN

Init == InitLocals /\ (InitFlagSweep \/ InitScheduleSweep \/ InitFileSweep)

\* ------------------------------------------------------------ main
\* int err = checkMaterialArgs(...): the flags are passed by value.
CheckArgs ==
  /\ pc = "check"
  /\ err' = checkMaterialArgs(hyperelastic, umat, cp, grain_euler, grain_q,
                              grain_uniform, ngrains)
  /\ pc' = "mesh"
  /\ UNCHANGED <<flagVars, schedVars, grainVars, ess_bdr, fieldVars,
                 loopVars, operVars, vis_u, files>>

\* mesh = new Mesh(mesh_file, 1, 1): the library constructor opens the
\* file itself and aborts the process when it cannot.
MeshFromFileName(ok) == IF ok THEN "grain_file" ELSE "mesh_abort"

\* ifstream imesh(mesh_file); if (!imesh) { ...; MPI_Finalize(); return 2; }
\* mesh = new Mesh(imesh, 1, 1);
MeshFromStream(ok) == IF ok THEN "grain_file" ELSE "exit"

\* Open the mesh, refine it and build pmesh.
OpenMesh ==
  /\ pc = "mesh"
  /\ pc' = IF cubit THEN MeshFromFileName(mesh_file_ok)
                    ELSE MeshFromStream(mesh_file_ok)
  /\ UNCHANGED <<flagVars, schedVars, err, grainVars, ess_bdr, fieldVars,
                 loopVars, operVars, vis_u, files>>

\* if (cp) { ifstream igrain(grain_file); if (!igrain && myid == 0)
\* { cerr << "Can not open grain file" } }: a message and nothing else.
AfterGrainFileCheck(c, ok, rank) == "grain_offset"

CheckGrainFile ==
  /\ pc = "grain_file"
  /\ pc' = AfterGrainFileCheck(cp, grain_file_ok, myid)
  /\ UNCHANGED <<flagVars, schedVars, err, grainVars, ess_bdr, fieldVars,
                 loopVars, operVars, vis_u, files>>

\* int grain_offset = 0; if (grain_euler) ... else if (grain_q) ... else if
\* (grain_uniform) { if (vdim == 0 && myid == 0) cerr << ...; else 3 }
GrainOffsetFor(ge, gq, gu, vdim, rank) ==
  IF ge THEN EulerOffset
  ELSE IF gq THEN QuatOffset
  ELSE IF gu THEN (IF vdim = 0 /\ rank = 0 THEN 0 ELSE EulerOffset)
  ELSE 0

ComputeGrainOffset ==
  /\ pc = "grain_offset"
  /\ grain_offset' = GrainOffsetFor(grain_euler, grain_q, grain_uniform,
                                    Len(grain_uni_vec), myid)
  /\ pc' = "grain_table"
  /\ UNCHANGED <<flagVars, schedVars, err, g_orient, matVars, ess_bdr,
                 fieldVars, loopVars, operVars, vis_u, files>>

\* Vector g_orient; if (!grain_uniform) g_orient.Load(igrain, gsize);
\* else g_orient = grain_uni_vec;  Load from a stream that failed to open
\* sizes the vector and reads nothing into it.
LoadedTable(gu, gsize, univec, ok) ==
  IF ~gu
    THEN (IF ok THEN TableOfSize(gsize) ELSE [i \in 1..gsize |-> UninitDatum])
    ELSE univec

\* if (cp) { int gsize = grain_offset * ngrains; ... } up to the call of
\* setGrainData.
LoadGrainTable ==
  /\ pc = "grain_table"
  /\ IF cp
       THEN /\ g_orient' = LoadedTable(grain_uniform, grain_offset * ngrains,
                                       grain_uni_vec, grain_file_ok)
            /\ pc' = "set_grain"
       ELSE /\ g_orient' = g_orient
            /\ pc' = "fields"
  /\ UNCHANGED <<flagVars, schedVars, err, grain_offset, matVars, ess_bdr,
                 fieldVars, loopVars, operVars, vis_u, files>>

\* ------------------------------------------------------ setGrainData
\* Points of the integration rule of a given degree on a cube: the tensor
\* product of the Gauss-Legendre rule with degree \div 2 + 1 points.
IntRuleNPoints(degree) ==
  LET n == degree \div 2 + 1 IN n * n * n

\* QuadratureSpace qspace(pmesh, order): points stored per element.
QSpacePoints == IntRuleNPoints(Order)
\* ir = &(IntRules.Get(fe->GetGeomType(), 2*fe->GetOrder() + 3))
LoopPoints == IntRuleNPoints(2 * Order + 3)

\* The mesh partition: the elements (0-based) carry the attributes 1 and 2
\* in turn, and pmesh->attributes lists the attributes present, in
\* increasing order.
GetAttribute(i) == 1 + (i % 2)
MeshAttributes == IF NumElems >= 2 THEN <<1, 2>> ELSE <<1>>

\* elem_atr = pmesh->attributes[fe_space->GetAttribute(i)]: a 0-based read,
\* past the end of the array for the largest attribute.
ElemAtr(i) ==
  IF GetAttribute(i) < Len(MeshAttributes)
    THEN MeshAttributes[GetAttribute(i) + 1]
    ELSE GarbageDatum

\* grain_data[k + grain_offset * elem_atr], a 0-based read of the table.
GrainDatum(table, off, atr, k) ==
  IF atr = GarbageDatum THEN GarbageDatum
  ELSE IF k + off * atr < Len(table) THEN table[k + off * atr + 1]
  ELSE GarbageDatum

\* matVars->SetSpace(qspace, grain_offset): storage of the caller's object,
\* vdim values per stored point, not initialised.
SetSpace(off) ==
  [space |-> "qspace", vdim |-> off,
   data |-> [p \in 1..(off * QSpacePoints * NumElems) |-> UninitDatum]]

\* matVars = 0; assigns the pointer parameter, not the object it points to.
PointerAfterReset(p) == NullPtr

\* The loops over elements i, points j and components k, storing
\* elem_data[k + grain_offset*j] = grain_data[k + grain_offset*elem_atr]
\* where elem_data is the storage of element i; the value left at the flat
\* position p (0-based) is that of the last store that reached it.
GrainLoop(mv, table, off) ==
  LET base(i) == off * QSpacePoints * i
      hits(p) == {ij \in (0..(NumElems - 1)) \X (0..(LoopPoints - 1)) :
                    /\ p - base(ij[1]) - off * ij[2] >= 0
                    /\ p - base(ij[1]) - off * ij[2] < off}
      last(p) == CHOOSE ij \in hits(p) :
                   \A o \in hits(p) :
                     \/ o[1] < ij[1]
                     \/ (o[1] = ij[1] /\ o[2] <= ij[2])
      stored(p) == IF hits(p) = {} THEN UninitDatum
                   ELSE GrainDatum(table, off, ElemAtr(last(p)[1]),
                                   p - base(last(p)[1]) - off * last(p)[2])
  IN [mv EXCEPT !.data = [q \in DOMAIN mv.data |-> stored(q - 1)]]

\* What a build can make of matVars->GetElementValues(i, elem_vec) through
\* the null pointer: a trap at the dereference, or the loop removed as
\* unreachable so that the function returns without storing.
NullDerefOutcomes == {"trap", "skipped"}

SetGrainData ==
  /\ pc = "set_grain"
  /\ LET mv == SetSpace(grain_offset)
         p == PointerAfterReset("matVars")
     IN IF NumElems = 0
          THEN matVars' = mv /\ pc' = "fields"
          ELSE IF p = NullPtr
            THEN \E o \in NullDerefOutcomes :
                   /\ matVars' = mv
                   /\ pc' = IF o = "trap" THEN "crashed" ELSE "fields"
            ELSE /\ matVars' = GrainLoop(mv, g_orient, grain_offset)
                 /\ pc' = "fields"
  /\ UNCHANGED <<flagVars, schedVars, err, grain_offset, g_orient, ess_bdr,
                 fieldVars, loopVars, operVars, vis_u, files>>

\* ---------------------------------------------- main, lines 359-406
\* Coordinate of the modelled node, in units of 0.1: the top of a column of
\* NumElems unit elements.
NodeCoord == 10 * NumElems

\* x_gf.ProjectCoefficient(deform); x_ref.ProjectCoefficient(refconfig);
\* ess_bdr.SetSize(bdr_attributes.Max()); ess_bdr = 0;
InitFields ==
  /\ pc = "fields"
  /\ x_gf' = NodeCoord
  /\ x_ref' = NodeCoord
  /\ ess_bdr' = [b \in 1..NumBdrAttr |-> 0]
  /\ pc' = "construct"
  /\ UNCHANGED <<flagVars, schedVars, err, grainVars, x_def, x, loopVars,
                 operVars, vis_u, files>>

\* ---------------------------- NonlinearMechOperator::NonlinearMechOperator
\* if (umat) model = new AbaqusUmatModel(...); else if (hyperelastic)
\* model = new NeoHookeanModel(...); with neither, model is left as it was.
ModelChoice(u, h) ==
  IF u THEN "AbaqusUmatModel" ELSE IF h THEN "NeoHookeanModel" ELSE Uninit

\* Hform->AddDomainIntegrator(new ...NLFIntegrator(model)) in either branch.
IntegratorsFor(u, h) ==
  IF u THEN <<[kind |-> "UserDefinedNLFIntegrator", model |-> ModelChoice(u, h)]>>
  ELSE IF h THEN <<[kind |-> "HyperelasticNLFIntegrator", model |-> ModelChoice(u, h)]>>
  ELSE << >>

\* What a build can make of Hform->SetEssentialBC(ess_bdr, rhs) through the
\* uninitialised member Hform: a trap, or a call on stray memory that
\* returns.
WildPointerOutcomes == {"trap", "stray"}

\* A call op made through the member Hform while the member is in state
\* st.
FormCall(op, st) == [op |-> op, on |-> st]

\* The calls of AddDomainIntegrator the constructor makes, after
\* Hform = new ParNonlinearForm(&fes).
IntegratorCalls(u, h) ==
  IF u \/ h THEN {FormCall("AddDomainIntegrator", "built")} ELSE {}

\* The constructor; Hform = new ParNonlinearForm(&fes) follows the call of
\* SetEssentialBC, so the new form holds no essential markers.
Construct ==
  /\ pc = "construct"
  /\ \E o \in WildPointerOutcomes :
       IF o = "trap"
         THEN /\ pc' = "crashed"
              /\ form_calls' = form_calls
                     \cup {FormCall("SetEssentialBC", Hform.state)}
              /\ UNCHANGED <<Hform, model>>
         ELSE /\ Hform' = [state |-> "built", essential |-> << >>,
                           integrators |-> IntegratorsFor(umat, hyperelastic)]
              /\ form_calls' = form_calls
                     \cup {FormCall("SetEssentialBC", Hform.state)}
                     \cup IntegratorCalls(umat, hyperelastic)
              /\ model' = ModelChoice(umat, hyperelastic)
              /\ pc' = "vis"
  /\ UNCHANGED <<flagVars, schedVars, err, grainVars, ess_bdr, fieldVars,
                 loopVars, newton_converged, released, vis_u, files>>

\* ------------------------------------ main, lines 428-439: visualization
\* Mutant of BarrierOpen: the barrier lets a rank through at once.
BarrierOpen_NoWait(arrived) == TRUE

\* MPI_Barrier returns on a rank once every rank of the communicator has
\* entered it.
BarrierOpen(arrived) == arrived = Ranks

\* The ranks that have entered MPI_Barrier.
InBarrier(v) == {r \in Ranks : v[r] \in {"in_barrier", "past_barrier"}}

\* Rank r is at the visualization block: this process when main is there,
\* another rank at any time.
AtVisBlock(r) == r = myid => pc = "vis"

\* if (!visualization): the block is skipped.
SkipVisualization ==
  /\ pc = "vis"
  /\ ~visualization
  /\ pc' = "step"
  /\ UNCHANGED <<flagVars, schedVars, err, grainVars, ess_bdr, fieldVars,
                 loopVars, operVars, vis_u, files>>

\* vis_u.open(vishost, visport); vis_u.precision(8);
\* visualize(vis_u, pmesh, &x_gf, &x_def, "Deformation", true);
VisOpenAndSend(r) ==
  /\ visualization
  /\ AtVisBlock(r)
  /\ vis_u[r] = "closed"
  /\ vis_u' = [vis_u EXCEPT ![r] = "sent"]
  /\ UNCHANGED <<flagVars, schedVars, pc, err, grainVars, ess_bdr,
                 fieldVars, loopVars, operVars, files>>

\* MPI_Barrier(pmesh->GetComm()): the rank enters the barrier.
BarrierEnter(r) ==
  /\ visualization
  /\ AtVisBlock(r)
  /\ vis_u[r] = "sent"
  /\ vis_u' = [vis_u EXCEPT ![r] = "in_barrier"]
  /\ UNCHANGED <<flagVars, schedVars, pc, err, grainVars, ess_bdr,
                 fieldVars, loopVars, operVars, files>>

\* MPI_Barrier returns; this process goes on to the time loop.
BarrierReturn(r) ==
  /\ visualization
  /\ AtVisBlock(r)
  /\ vis_u[r] = "in_barrier"
  /\ BarrierOpen(InBarrier(vis_u))
  /\ vis_u' = [vis_u EXCEPT ![r] = "past_barrier"]
  /\ pc' = IF r = myid THEN "step" ELSE pc
  /\ UNCHANGED <<flagVars, schedVars, err, grainVars, ess_bdr,
                 fieldVars, loopVars, operVars, files>>

\* ------------------------------------------------------- the time loop
\* Mutant of StepSize: the step is not clamped to the time left.
StepSize_Unclamped(d, tf, now) == d

\* double dt_real = min(dt, t_final - t);
StepSize(d, tf, now) == Min(d, tf - now)

\* last_step = (t >= t_final - 1e-8*dt), that is t_final - t <= dt / 1e8;
\* the time left is a whole number of ticks.
LastStep(now, tf, d) == tf - now <= d \div EpsInv

\* ess_bdr = 0; ess_bdr[1] = 1; ... ess_bdr[0] = 1; (0-based)
MarkersForSolve(bdr) ==
  [b \in DOMAIN bdr |-> IF b - 1 = 1 \/ b - 1 = 0 THEN 1 ELSE 0]

\* Mult and GetGradient, called by the Newton solver: Hform->Mult(k, y);
\* return Hform->GetGradient(x);
SolverCalls(st) == {FormCall("Mult", st), FormCall("GetGradient", st)}

\* Mutant of SolveOutcome: the check is compiled out.
SolveOutcome_Unchecked(converged) == "solved"

\* MFEM_VERIFY(newton_solver.GetConverged(), ...) of Solve: aborts the
\* process unless the solver converged.
SolveOutcome(converged) == IF converged THEN "solved" ELSE "aborted"

\* Displacements, in units of 0.1, that the Newton iteration may add to
\* the initial guess.
NewtonShifts == {0, 1}

\* Lines 446-475: the step's time, the boundary values, the initial guess
\* x = x_gf + x_non_zero_ess, and oper.Solve(x), which leaves in x whatever
\* the Newton iteration reached.
StepSolve ==
  /\ pc = "step"
  /\ t' = t + StepSize(dt, t_final, t)
  /\ ess_bdr' = MarkersForSolve(ess_bdr)
  /\ \E converged \in BOOLEAN, shift \in NewtonShifts :
       /\ x' = (x_gf + BdrIncrement) + shift
       /\ newton_converged' = IF converged THEN "yes" ELSE "no"
       /\ pc' = SolveOutcome(converged)
  /\ form_calls' = form_calls \cup SolverCalls(Hform.state)
  /\ UNCHANGED <<flagVars, schedVars, err, grainVars, x_gf, x_ref, x_def,
                 ti, last_step, Hform, model, released, vis_u, files>>

\* (ti % vis_steps) == 0, evaluated only when last_step is false; with
\* vis_steps = 0 the division is undefined: a trap, or either truth value.
\* Both ti and vis_steps are positive otherwise, where % of C++ is the
\* modulus.
VisDueOutcomes(ls, step, vs) ==
  IF ls THEN {"unevaluated"}
  ELSE IF vs = 0 THEN {"trap", "due", "not_due"}
  ELSE {IF step % vs = 0 THEN "due" ELSE "not_due"}

\* Mutant of NewReference: the reference is never advanced.
NewReference_Stale(ls, ref, cur) == ref

\* if (!last_step) { ...; x_ref = x_gf; }
NewReference(ls, ref, cur) == IF ~ls THEN cur ELSE ref

\* ----------------------------------------------------- snapshot files
DigitChar(d) == <<"0", "1", "2", "3", "4", "5", "6", "7", "8", "9">>[d + 1]

RECURSIVE Digits(_)
Digits(n) ==
  IF n < 10 THEN <<DigitChar(n)>>
  ELSE Append(Digits(n \div 10), DigitChar(n % 10))

\* setfill('0') << setw(6): padded on the left to at least NameWidth.
PadLeft(s, w) ==
  IF Len(s) >= w THEN s ELSE [i \in 1..(w - Len(s)) |-> "0"] \o s

\* "mesh." << setfill('0') << setw(6) << myid << "_" << ti
SnapshotName(prefix, id, step) ==
  <<prefix>> \o PadLeft(Digits(id), NameWidth) \o <<"_">> \o Digits(step)

\* ofstream ofs(name): creates the file or truncates the one of that name.
WriteFile(fs, name, data) ==
  IF name \in DOMAIN fs
    THEN [fs EXCEPT ![name] = [data |-> data, writes |-> @.writes + 1]]
    ELSE fs @@ (name :> [data |-> data, writes |-> 1])

\* Mutant of WritesSnapshot: the save block moved under the visualisation
\* test.
WritesSnapshot_WhenVisDue(ls, due) == ls \/ due

\* The block of lines 511-530 is not guarded.
WritesSnapshot(ls, due) == TRUE

\* Lines 477-532: last_step, the two updates of x_gf and x_def, the new
\* reference, the two snapshot files, and ti++ of the for statement.
StepFinish ==
  /\ pc = "solved"
  /\ LET ls == LastStep(t, t_final, dt) IN
     \E o \in VisDueOutcomes(ls, ti, vis_steps) :
       IF o = "trap"
         THEN /\ pc' = "crashed"
              /\ last_step' = ls
              /\ UNCHANGED <<x_gf, x_ref, x_def, ti, files>>
         ELSE LET due == (o = "due")
                  shown == ls \/ due
                  gf1 == IF shown THEN x ELSE x_gf
                  def1 == IF shown THEN gf1 - x_ref ELSE x_def
                  gf2 == IF ~ls THEN x ELSE gf1
                  def2 == IF ~ls THEN gf2 - x_ref ELSE def1
              IN /\ last_step' = ls
                 /\ x_gf' = gf2
                 /\ x_def' = def2
                 /\ x_ref' = NewReference(ls, x_ref, gf2)
                 /\ files' =
                      IF WritesSnapshot(ls, due)
                        THEN WriteFile(
                               WriteFile(files,
                                         SnapshotName("mesh.", myid, ti), gf2),
                               SnapshotName("deformation.", myid, ti), def2)
                        ELSE files
                 /\ ti' = ti + 1
                 /\ pc' = IF ls THEN "finish" ELSE "step"
  /\ UNCHANGED <<flagVars, schedVars, err, grainVars, ess_bdr, x, t,
                 operVars, vis_u>>

\* --------------------- return from main: ~NonlinearMechOperator
\* delete model; with the member never assigned the pointer is stray.
Finish ==
  /\ pc = "finish"
  /\ \E o \in (IF model = Uninit THEN WildPointerOutcomes ELSE {"freed"}) :
       /\ released' = IF o = "trap" THEN released ELSE Append(released, model)
       /\ pc' = IF o = "trap" THEN "crashed" ELSE "done"
  /\ UNCHANGED <<flagVars, schedVars, err, grainVars, ess_bdr, fieldVars,
                 loopVars, Hform, model, newton_converged, form_calls,
                 vis_u, files>>

Next ==
  \/ CheckArgs
  \/ OpenMesh
  \/ CheckGrainFile
  \/ ComputeGrainOffset
  \/ LoadGrainTable
  \/ SetGrainData
  \/ InitFields
  \/ Construct
  \/ SkipVisualization
  \/ \E r \in Ranks : VisOpenAndSend(r)
  \/ \E r \in Ranks : BarrierEnter(r)
  \/ \E r \in Ranks : BarrierReturn(r)
  \/ StepSolve
  \/ StepFinish
  \/ Finish

Spec == Init /\ [][Next]_vars

\* main is one sequential process: it takes its next step while it has one.
FairSpec == Spec /\ WF_vars(Next)

\* ================================================================ claims
\* Positions of main after checkMaterialArgs returned.
AfterCheck == pc # "check"
\* Positions of main after the operator was constructed.
AfterConstruct == pc \in {"vis", "step", "solved", "finish", "done",
                          "aborted"}
\* Positions of main after setGrainData returned (reached only past it).
AfterGrain == pc \in {"fields", "construct", "vis", "step", "solved", "finish",
                      "done", "aborted"}
ExactlyOneOrientation ==
  \/ (grain_euler /\ ~grain_q /\ ~grain_uniform)
  \/ (~grain_euler /\ grain_q /\ ~grain_uniform)
  \/ (~grain_euler /\ ~grain_q /\ grain_uniform)

\* C1: checkMaterialArgs returns 0 whenever hyperelastic is true, whatever
\* the other flags and ngrains are.
C1_HyperelasticNoError ==
  (AfterCheck /\ hyperelastic) => err = 0

\* C1 witness: the validator has returned 0 for hyperelastic together with
\* cp, no orientation flag and no grains, which without hyperelastic is an
\* error.
C1_Witness ==
  /\ AfterCheck /\ hyperelastic /\ cp /\ umat
  /\ ~grain_euler /\ ~grain_q /\ ~grain_uniform /\ ngrains = 0
  /\ err = 0

\* C2 (as claimed): with cp true and hyperelastic false, checkMaterialArgs
\* returns 0 exactly when one orientation flag is set and ngrains >= 1, and
\* 1 otherwise, for both values of umat.
C2_CpValidIffOneOrientation ==
  (AfterCheck /\ cp /\ ~hyperelastic) =>
    /\ err \in {0, 1}
    /\ (err = 0) <=> (ExactlyOneOrientation /\ ngrains >= 1)

\* C3 (as claimed): for every combination of hyperelastic and umat the
\* constructor creates exactly one constitutive model and registers exactly
\* one domain integrator bound to it, and that model is the one released on
\* destruction.
C3_OneModelOneIntegrator ==
  AfterConstruct =>
    /\ model # Uninit
    /\ Len(Hform.integrators) = 1
    /\ Hform.integrators[1].model = model
    /\ (pc = "done" => released = <<model>>)

\* C4 (as claimed): whenever the run is started with hyperelastic true, the
\* model the operator binds is the Neo-Hookean one and the driver goes on as
\* if the user-material and grain-orientation flags were false: no grain
\* offset, no grain table, no grain data.
C4_HyperelasticPrecedence ==
  (AfterConstruct /\ hyperelastic) =>
    /\ model = "NeoHookeanModel"
    /\ grain_offset = 0
    /\ g_orient = << >>
    /\ matVars.space = NullPtr

\* C5: after a Newton solve that did not converge the run is aborted: the
\* current and reference configurations, the deformation, the files and the
\* step counter never change again.
C5_FailedSolveAborts ==
  /\ [](newton_converged = "no" => pc = "aborted")
  /\ [][newton_converged = "no" =>
          UNCHANGED <<x_gf, x_ref, x_def, files, ti, t>>]_vars

\* C5 witness: a solve failed after an earlier step had completed and
\* written its files.
C5_Witness ==
  /\ newton_converged = "no" /\ pc = "aborted"
  /\ ti >= 2 /\ DOMAIN files # {}

\* C6: every step starts with the reference configuration equal to the
\* current one; a converged non-terminal step sets the reference to the
\* just-converged configuration, the terminal step leaves it unchanged, and
\* the deformation saved for a step is the converged configuration minus
\* the configuration at the start of the step.
C6_ReferenceFollowsCurrent ==
  /\ [](pc = "step" => x_ref = x_gf)
  /\ [][(pc = "solved" /\ pc' \in {"step", "finish"}) =>
          /\ x_gf' = x
          /\ (pc' = "step" => x_ref' = x)
          /\ (pc' = "finish" => x_ref' = x_ref)
          /\ SnapshotName("deformation.", myid, ti) \in DOMAIN files'
          /\ files'[SnapshotName("deformation.", myid, ti)].data = x - x_gf
       ]_vars

\* C6 witness: the terminal step has finished after at least one earlier
\* step, with the configuration moved away from the reference it kept.
C6_Witness ==
  /\ pc = "finish" /\ ti >= 3
  /\ x_ref # x_gf /\ x_ref # NodeCoord

NameIds == 0..(10 * NumProcs + 1)
NameSteps == 1..(MaxTFinal + 1)
SnapshotKinds == {"mesh.", "deformation."}

\* C8: every completed step, whatever vis_steps is, has written exactly one
\* mesh and one deformation snapshot, named by the padded process id and
\* the step index; steps count from 1 by 1, no other (process, step) pair
\* has the name of a written file, and a written file is never written
\* again.
C8_SnapshotsPerStep ==
  /\ [](/\ ti >= 1
        /\ DOMAIN files = {SnapshotName(kd, myid, k) :
                             kd \in SnapshotKinds, k \in 1..(ti - 1)}
        /\ Cardinality(DOMAIN files) = 2 * (ti - 1)
        /\ \A n \in DOMAIN files : files[n].writes = 1
        /\ (myid = 1 /\ ti >= 2) =>
             {<<"mesh.", "0", "0", "0", "0", "0", "1", "_", "1">>,
              <<"deformation.", "0", "0", "0", "0", "0", "1", "_", "1">>}
               \subseteq DOMAIN files)
  /\ [][/\ (ti' = ti \/ ti' = ti + 1)
        /\ \A n \in DOMAIN files :
             n \in DOMAIN files' /\ files'[n] = files[n]
        /\ (ti' = ti + 1) =>
             \A kd \in SnapshotKinds, p \in NameIds, k \in NameSteps :
               SnapshotName(kd, p, k) \in (DOMAIN files' \ DOMAIN files) =>
                 (p = myid /\ k = ti)]_vars

\* C8 witness: three steps completed with vis_steps = 2, so that steps 1
\* and 3 were not due for display, and six files stand written.
C8_Witness ==
  /\ pc = "done" /\ ti - 1 = 3 /\ vis_steps = 2
  /\ Cardinality(DOMAIN files) = 6

\* C9 (as claimed): after setGrainData, the caller's matVars holds, for
\* every element and every stored point of it, the grain_offset values of
\* the table slice at the element's attribute.
C9_SlicesAssigned ==
  (cp /\ AfterGrain) =>
    /\ matVars.vdim = grain_offset
    /\ \A e \in 0..(NumElems - 1), j \in 0..(QSpacePoints - 1),
          k \in 0..(grain_offset - 1) :
         LET pos == grain_offset * QSpacePoints * e + grain_offset * j + k
             src == grain_offset * GetAttribute(e) + k
         IN /\ pos + 1 \in DOMAIN matVars.data
            /\ src + 1 \in DOMAIN g_orient
            /\ matVars.data[pos + 1] = g_orient[src + 1]

\* C10 (as claimed): whenever setGrainData is called, the orientation table
\* holds exactly grain_offset * ngrains values, loaded from the file or
\* taken from the uniform vector.
C10_TableSize ==
  (cp /\ pc = "set_grain") => Len(g_orient) = grain_offset * ngrains

\* Positions of main up to and including the opening of the mesh file, and
\* the two ways out of it.
UpToMeshOpen == {"check", "mesh", "exit", "mesh_abort"}

\* C11 (as claimed): a run whose mesh file cannot be opened, on either
\* import path, or whose grain file cannot be opened with cp requested,
\* exits where the file is opened: main never goes past the opening of the
\* mesh with a missing mesh file, nor past the check of the grain file with
\* a missing grain file, and so never reaches the operator or the time
\* loop.
C11_MissingFileExits ==
  /\ ~mesh_file_ok => pc \in UpToMeshOpen
  /\ (cp /\ ~grain_file_ok) => pc \in (UpToMeshOpen \cup {"grain_file"})

\* C12 (as claimed): at every call of Solve, the essential-boundary markers
\* held by the operator's nonlinear form are the ones main wrote into
\* ess_bdr before the solve: boundary attribute groups 0 and 1 (0-based)
\* marked, every other group unmarked.
C12_MarkersInEffect ==
  newton_converged # "unset" =>
    /\ ess_bdr = [b \in 1..NumBdrAttr |-> IF b - 1 \in {0, 1} THEN 1 ELSE 0]
    /\ Hform.essential = ess_bdr

\* Positions of main in and after the time loop.
InTimeLoop == pc \in {"step", "solved", "finish", "done", "aborted"}

WrittenOfElement(mv, e) ==
  {p \in (mv.vdim * QSpacePoints * e + 1)..(mv.vdim * QSpacePoints * (e + 1)) :
     p \in DOMAIN mv.data /\ mv.data[p] # UninitDatum}

\* C14 (as claimed): whenever grain data of positive width was loaded, for
\* every element the loader has written exactly grain_offset * (points
\* allocated for the element) entries, all inside the element's storage,
\* and the rule it iterates over (degree 2*order+3) has as many points as
\* the rule the quadrature space was built with.
C14_LoaderFillsElementStorage ==
  (cp /\ AfterGrain /\ grain_offset > 0) =>
    /\ \A e \in 0..(NumElems - 1) :
         Cardinality(WrittenOfElement(matVars, e)) = grain_offset * QSpacePoints
    /\ LoopPoints = QSpacePoints

\* Positions of main after grain_offset was computed.
AfterGrainOffset ==
  pc \notin {"check", "mesh", "exit", "mesh_abort", "grain_file",
             "grain_offset"}

\* C15 (as claimed): the grain_offset this process derived is the one every
\* rank of the run derives from the same command-line flags: 3 for Euler
\* angles, 4 for quaternions, 3 for a uniform orientation with a non-empty
\* vector, 0 otherwise.
C15_SameOffsetOnAllRanks ==
  AfterGrainOffset =>
    /\ grain_offset =
         (IF grain_euler THEN EulerOffset
          ELSE IF grain_q THEN QuatOffset
          ELSE IF grain_uniform /\ Len(grain_uni_vec) > 0 THEN EulerOffset
          ELSE 0)
    /\ \A r \in Ranks :
         GrainOffsetFor(grain_euler, grain_q, grain_uniform,
                        Len(grain_uni_vec), r) = grain_offset

\* C16 (as claimed): every call made through the member Hform, by the
\* constructor (SetEssentialBC, AddDomainIntegrator) or later by the Newton
\* solver (Mult, GetGradient), is made on the form the constructor created:
\* the form exists before anything is invoked on it.
C16_FormCreatedBeforeUse ==
  \A c \in form_calls : c.on = "built"
====
